---- MODULE Spec2Model ----
(***************************************************************************)
(* Model of the serial stage drivers of HSC103Controller:                  *)
(*   src/HSC103Controller/HSC103Controller.py  MySerial, axis2msg,         *)
(*                                             DS102Controller,            *)
(*                                             HSC103Controller            *)
(*   src/hsc103controller/HSC103Controller.py  HSC103Controller (variant)  *)
(*                                                                         *)
(* The drivers are synchronous and single threaded, so every public call   *)
(* is one action, taken by the one caller when it is idle.  An action      *)
(* draws the caller's arguments and the lines the device answers with,     *)
(* runs the whole method, and hands back to the caller                     *)
(*   log   the send()/recv() invocations of the call, in order,            *)
(*   wire  the byte strings the call wrote to the serial port,             *)
(*   ret   what the call returned or the exception it raised.              *)
(*                                                                         *)
(* Commands are TLA+ strings.  Replies are sequences of one-character      *)
(* strings, so that the parsers (int(), float(), split, strip) are         *)
(* computed character by character.                                        *)
(***************************************************************************)
EXTENDS Integers, Sequences, FiniteSets, TLC

VARIABLES ctl, online, nInit, pc, call, log, wire, ret

vars == <<ctl, online, nInit, pc, call, log, wire, ret>>

(***************************************************************************)
(* Bounds of the model.                                                    *)
(***************************************************************************)
\* replies of every length up to MaxReplyLen over Alphabet are tried
MaxReplyLen == 2
\* velocities -VelSpan..VelSpan are tried, besides the ones around the limits
VelSpan == 6
\* millimetre positions -PosSpan..PosSpan are tried
PosSpan == 1

(***************************************************************************)
(* Program constants.                                                      *)
(***************************************************************************)
\* DS102Controller.set_velocity: 0 < vel <= 25000
VelMax == 25000
\* HSC103Controller.__init__: um_per_pulse = 0.01, kept as the exact ratio 1/100
PulsesPerUm == 100
\* HSC103Controller.__init__: max_speed = 4000000 * um_per_pulse; set_speed
\* compares against max_speed / um_per_pulse, which is 4000000.0 in doubles
MaxPulseSpeed == 4000000
\* HSC103Controller.set_speed: 1 <= rate <= 1000
RateMax == 1000

(***************************************************************************)
(* Characters and Python's text conversions.                               *)
(***************************************************************************)
Digits == {"0", "1", "2", "3", "4", "5", "6", "7", "8", "9"}

DigitVal(c) ==
    CASE c = "0" -> 0 [] c = "1" -> 1 [] c = "2" -> 2 [] c = "3" -> 3
      [] c = "4" -> 4 [] c = "5" -> 5 [] c = "6" -> 6 [] c = "7" -> 7
      [] c = "8" -> 8 [] c = "9" -> 9

\* the characters str.strip() and int()/float() treat as white space
Whitespace == {" ", "\t", "\n", "\r"}

RECURSIVE StripLeft(_, _)
StripLeft(s, chars) ==
    IF s # <<>> /\ Head(s) \in chars THEN StripLeft(Tail(s), chars) ELSE s

RECURSIVE StripRight(_, _)
StripRight(s, chars) ==
    IF s # <<>> /\ s[Len(s)] \in chars
    THEN StripRight(SubSeq(s, 1, Len(s) - 1), chars)
    ELSE s

\* str.strip(chars)
Strip(s, chars) == StripRight(StripLeft(s, chars), chars)

\* the digit string s read as a number
RECURSIVE DigitsVal(_)
DigitsVal(s) ==
    IF s = <<>> THEN 0
    ELSE 10 * DigitsVal(SubSeq(s, 1, Len(s) - 1)) + DigitVal(s[Len(s)])

AllDigits(s) == s # <<>> /\ \A i \in 1..Len(s) : s[i] \in Digits

Unsigned(s) == IF s # <<>> /\ s[1] \in {"+", "-"} THEN Tail(s) ELSE s

Negative(s) == s # <<>> /\ s[1] = "-"

\* int(text): [ok |-> FALSE] stands for ValueError
PyInt(text) ==
    LET t == Strip(text, Whitespace)
        u == Unsigned(t)
    IN  IF AllDigits(u)
        THEN [ok |-> TRUE,
              val |-> IF Negative(t) THEN -DigitsVal(u) ELSE DigitsVal(u)]
        ELSE [ok |-> FALSE]

\* str(n) for an integer n, as characters
RECURSIVE NatChars(_)
NatChars(n) ==
    LET d == CHOOSE c \in Digits : DigitVal(c) = n % 10
    IN  IF n < 10 THEN <<d>> ELSE Append(NatChars(n \div 10), d)

PyStr(n) == IF n < 0 THEN <<"-">> \o NatChars(-n) ELSE NatChars(n)

\* text.split(',')
RECURSIVE Split(_)
Split(s) ==
    IF \A i \in 1..Len(s) : s[i] # "," THEN <<s>>
    ELSE LET i == CHOOSE k \in 1..Len(s) :
                      s[k] = "," /\ \A j \in 1..(k - 1) : s[j] # ","
         IN  <<SubSeq(s, 1, i - 1)>> \o Split(SubSeq(s, i + 1, Len(s)))

\* sep.join(parts) for command strings
RECURSIVE Join(_, _)
Join(parts, sep) ==
    IF parts = <<>> THEN ""
    ELSE IF Len(parts) = 1 THEN parts[1]
    ELSE parts[1] \o sep \o Join(Tail(parts), sep)

Abs(n) == IF n < 0 THEN -n ELSE n

\* int(x) of a quotient: truncation toward zero
TruncDiv(a, b) == IF a >= 0 THEN a \div b ELSE -((-a) \div b)

RECURSIVE Pow10(_)
Pow10(k) == IF k = 0 THEN 1 ELSE 10 * Pow10(k - 1)

(***************************************************************************)
(* float(text) and int(float(text) * 1000).                                *)
(*                                                                         *)
(* The replies of this model hold no exponent and no underscore, so a      *)
(* number is [sign] digits [. digits] or [sign] . digits; "inf" and "nan"  *)
(* are the two special values.                                             *)
(***************************************************************************)
DotAt(u) == {i \in 1..Len(u) : u[i] = "."}

\* float(text): kind "err" stands for ValueError
PyFloat(text) ==
    LET t == Strip(text, Whitespace)
        u == Unsigned(t)
    IN  IF u = <<"i", "n", "f">> THEN [kind |-> "inf"]
        ELSE IF u = <<"n", "a", "n">> THEN [kind |-> "nan"]
        ELSE IF AllDigits(u)
        THEN [kind |-> "num", neg |-> Negative(t), mant |-> DigitsVal(u), frac |-> 0]
        ELSE IF Cardinality(DotAt(u)) = 1
        THEN LET d == CHOOSE i \in DotAt(u) : TRUE
                 ip == SubSeq(u, 1, d - 1)
                 fp == SubSeq(u, d + 1, Len(u))
             IN  IF ip \o fp # <<>> /\ \A i \in 1..Len(ip \o fp) : (ip \o fp)[i] \in Digits
                 THEN [kind |-> "num", neg |-> Negative(t),
                       mant |-> DigitsVal(ip \o fp), frac |-> Len(fp)]
                 ELSE [kind |-> "err"]
        ELSE [kind |-> "err"]

\* The thousandths m in 0..15999 for which the double nearest to m/1000, times
\* 1000, rounds to the double just below m (1.001 * 1000 = 1000.9999999999999),
\* so that int() of the product is m - 1.
DoubleShortfall ==
    {1001, 1003, 1005, 1007, 1009, 1011, 1013, 1015, 1017, 1019, 1021, 1023,
     2002, 2006, 2010, 2014, 2018, 2022, 2026, 2030, 2034, 2038, 2042, 2046,
     4004, 4007, 4012, 4015, 4020, 4023, 4028, 4031, 4036, 4039, 4044, 4047,
     4052, 4055, 4060, 4063, 4068, 4071, 4076, 4079, 4084, 4087, 4092, 4095,
     8001, 8008, 8011, 8014, 8017, 8024, 8027, 8030, 8033, 8040, 8043, 8046,
     8049, 8056, 8059, 8062, 8065, 8072, 8075, 8078, 8081, 8088, 8091, 8094,
     8097, 8104, 8107, 8110, 8120, 8123, 8126, 8133, 8136, 8139, 8142, 8149,
     8152, 8155, 8158, 8165, 8168, 8171, 8174, 8181, 8184, 8187, 8190}

\* the exact value of the number f times 1000, truncated toward zero
ExactMilli(f) ==
    LET m == (f.mant * 1000) \div Pow10(f.frac)
    IN  IF f.neg THEN -m ELSE m

\* int(float(text) * 1000) for a number f
DoubleMilli(f) ==
    LET m == (f.mant * 1000) \div Pow10(f.frac)
        whole == (f.mant * 1000) % Pow10(f.frac) = 0
        t == IF whole /\ m \in DoubleShortfall THEN m - 1 ELSE m
    IN  IF f.neg THEN -t ELSE t

\* int(float(text) * 1000): ValueError for text that is no number and for
\* nan, OverflowError for inf
ScaleReply(text) ==
    LET f == PyFloat(text)
    IN  CASE f.kind = "err" -> [ok |-> FALSE, exc |-> "ValueError"]
          [] f.kind = "nan" -> [ok |-> FALSE, exc |-> "ValueError"]
          [] f.kind = "inf" -> [ok |-> FALSE, exc |-> "OverflowError"]
          [] f.kind = "num" -> [ok |-> TRUE, val |-> DoubleMilli(f)]

(***************************************************************************)
(* What a call leaves behind.                                              *)
(***************************************************************************)
None == [kind |-> "None"]
Bool(b) == [kind |-> "bool", val |-> b]
List(s) == [kind |-> "list", val |-> s]

Begin == [log |-> <<>>, wire |-> <<>>, ret |-> None]

Return(o, r) == [o EXCEPT !.ret = r]
Raise(o, exc) == [o EXCEPT !.ret = [kind |-> "raise", exc |-> exc]]
Raised(o) == o.ret.kind = "raise"

SendEv(msg) == [ev |-> "send", msg |-> msg]
RecvEv(text) == [ev |-> "recv", reply |-> text]

(***************************************************************************)
(* MySerial: the DS102 transport, lines ended by "\r".                     *)
(***************************************************************************)
MySerial_eol == "\r"

\* MySerial.send: one write of the message and the terminator
MySerial_send(o, msg) ==
    [o EXCEPT !.log = Append(@, SendEv(msg)),
              !.wire = Append(@, msg \o MySerial_eol)]

\* MySerial.recv: line is what was read up to and including the first "\r", or
\* up to the read that timed out; the text returned has its "\r" stripped
MySerial_recv(o, line) ==
    [o EXCEPT !.log = Append(@, RecvEv(Strip(line, {"\r"})))]

LastReply(o) == o.log[Len(o.log)].reply

(***************************************************************************)
(* axis2msg                                                                *)
(***************************************************************************)
AxisOk(axis) == axis \in {"x", "y"}

\* for an axis that is neither 'x' nor 'y' axis2msg raises ValueError; the
\* callers below test AxisOk where the code calls axis2msg
axis2msg(axis) == "AXIs" \o (IF axis = "x" THEN "1" ELSE "2") \o ":"

(***************************************************************************)
(* DS102Controller                                                         *)
(***************************************************************************)
\* a lower limit that lets 0 through
VelOffByOne(vel) == 0 <= vel /\ vel <= VelMax

\* set_velocity: not 0 < vel <= 25000 is rejected
VelocityInRange(vel) == 0 < vel /\ vel <= VelMax

DS102_set_velocity(o, axis, vel) ==
    IF ~VelocityInRange(vel) THEN Return(o, None)
    ELSE IF ~AxisOk(axis) THEN Raise(o, "ValueError")
    ELSE Return(MySerial_send(o, axis2msg(axis) \o "Fspeed0 " \o ToString(vel)), None)

DS102_set_velocity_all(o, vel) ==
    DS102_set_velocity(DS102_set_velocity(o, "x", vel), "y", vel)

DS102_set_velocity_max_all(o) == DS102_set_velocity_all(o, 25000)

DS102_select_speed_table(o, axis, speed) ==
    IF ~AxisOk(axis) THEN Raise(o, "ValueError")
    ELSE Return(MySerial_send(o, axis2msg(axis) \o "SELectSPeed " \o ToString(speed)), None)

\* a comparison of numbers where the code compares texts
SpeedTableComparedAsNumber(o, axis, speed, line) ==
    IF ~AxisOk(axis) THEN Raise(o, "ValueError")
    ELSE LET o1 == MySerial_recv(MySerial_send(o, axis2msg(axis) \o "SELectSPeed?"), line)
             n == PyInt(LastReply(o1))
         IN  Return(o1, Bool(n.ok /\ n.val = speed))

DS102_speed_table_is(o, axis, speed, line) ==
    IF ~AxisOk(axis) THEN Raise(o, "ValueError")
    ELSE LET o1 == MySerial_recv(MySerial_send(o, axis2msg(axis) \o "SELectSPeed?"), line)
         IN  Return(o1, Bool(LastReply(o1) = PyStr(speed)))

\* one pass of the loop of __init__
DS102_init_axis(o, axis, readyLine, speedLine) ==
    LET o1 == MySerial_recv(MySerial_send(o, axis2msg(axis) \o "READY?"), readyLine)
        o2 == DS102_speed_table_is(o1, axis, 0, speedLine)
    IN  IF ~o2.ret.val THEN DS102_select_speed_table(o2, axis, 0) ELSE o2

DS102_init(lines) ==
    Return(DS102_init_axis(DS102_init_axis(Begin, "x", lines[1], lines[2]),
                           "y", lines[3], lines[4]),
           None)

\* a sign test that takes 0 for positive
GoCodeNonNegative(vel) == IF vel >= 0 THEN "5" ELSE "6"

\* move_velocity: '5' if vel > 0 else '6'
GoCode(vel) == IF vel > 0 THEN "5" ELSE "6"

DS102_move_velocity(o, axis, vel) ==
    LET o1 == DS102_set_velocity(o, axis, Abs(vel))
    IN  IF Raised(o1) THEN o1
        ELSE IF ~AxisOk(axis) THEN Raise(o1, "ValueError")
        ELSE Return(MySerial_send(o1, axis2msg(axis) \o "GO " \o GoCode(vel)), None)

DS102_move_abs(o, axis, pos) ==
    IF ~AxisOk(axis) THEN Raise(o, "ValueError")
    ELSE Return(MySerial_send(o, axis2msg(axis) \o "GOABS " \o ToString(pos)), None)

DS102_move_line(o, x, y) ==
    Return(MySerial_send(o, "GOLineA X" \o ToString(x) \o " Y" \o ToString(y)), None)

DS102_stop_axis(o, axis) ==
    IF ~AxisOk(axis) THEN Raise(o, "ValueError")
    ELSE Return(MySerial_send(o, axis2msg(axis) \o "STOP Emergency"), None)

DS102_stop(o) == Return(MySerial_send(o, "STOP Emergency"), None)

\* one pass of the loop of get_position; pos is the list built so far
DS102_get_position_axis(o, pos, axis, line) ==
    LET o1 == MySerial_recv(MySerial_send(o, axis2msg(axis) \o "POSition?"), line)
        s == ScaleReply(LastReply(o1))
    IN  IF s.ok THEN [o |-> o1, pos |-> Append(pos, s.val)]
        ELSE IF s.exc = "ValueError" THEN [o |-> o1, pos |-> Append(pos, 0)]
        ELSE [o |-> Raise(o1, s.exc), pos |-> pos]

DS102_get_position(o, lineX, lineY) ==
    LET a == DS102_get_position_axis(o, <<>>, "x", lineX)
        b == DS102_get_position_axis(a.o, a.pos, "y", lineY)
    IN  IF Raised(a.o) THEN a.o
        ELSE IF Raised(b.o) THEN b.o
        ELSE Return(b.o, List(b.pos))

DS102_set_position(o, axis, pos) ==
    IF ~AxisOk(axis) THEN Raise(o, "ValueError")
    ELSE Return(MySerial_send(o, axis2msg(axis) \o "POS " \o ToString(pos)), None)

DS102_check_limit(o, axis, line) ==
    IF ~AxisOk(axis) THEN Raise(o, "ValueError")
    ELSE LET o1 == MySerial_recv(MySerial_send(o, axis2msg(axis) \o "LIMIT?"), line)
             ans == PyInt(LastReply(o1))
         IN  IF ~ans.ok THEN Raise(o1, "ValueError")
             ELSE Return(o1, Bool(ans.val > 0))

DS102_check_limit_all(o, lineX, lineY) ==
    LET a == DS102_check_limit(o, "x", lineX)
        b == DS102_check_limit(a, "y", lineY)
    IN  IF Raised(a) THEN a
        ELSE IF Raised(b) THEN b
        ELSE Return(b, List(<<a.ret.val, b.ret.val>>))

(***************************************************************************)
(* HSC103Controller, in its two variants.  self is                         *)
(*   [variant |-> "HSC103" (src/HSC103Controller) or                       *)
(*                "hsc103" (src/hsc103controller),                         *)
(*    online  |-> whether ser is a port (TRUE) or None (FALSE)].           *)
(***************************************************************************)
HSC103_end == "\r\n"

\* recv() without a port
Placeholder == <<"s", "o", "m", "e", " ", "r", "e", "s", "p", "o", "n", "s", "e">>

\* send: nothing is written without a port
HSC103_send(self, o, order) ==
    [o EXCEPT !.log = Append(@, SendEv(order)),
              !.wire = IF self.online THEN Append(@, order \o HSC103_end) ELSE @]

\* recv: the line of readline() as it is (the result of msg.strip is dropped)
HSC103_recv(self, o, line) ==
    [o EXCEPT !.log = Append(@, RecvEv(IF self.online THEN line ELSE Placeholder))]

\* an exchange that reads before it writes
QueryReadsFirst(self, o, msg, line) == HSC103_send(self, HSC103_recv(self, o, line), msg)

\* self.send(msg) followed by self.recv()
HSC103_query(self, o, msg, line) == HSC103_recv(self, HSC103_send(self, o, msg), line)

\* check_status: '!:', '?:N', '?:V', '?:P', then '?:D<i>', '?:B<i>' for i = 1, 2, 3
StatusQueries ==
    <<"!:", "?:N", "?:V", "?:P",
      "?:D" \o ToString(1), "?:B" \o ToString(1),
      "?:D" \o ToString(2), "?:B" \o ToString(2),
      "?:D" \o ToString(3), "?:B" \o ToString(3)>>

RECURSIVE HSC103_check_status_from(_, _, _, _)
HSC103_check_status_from(self, o, i, lines) ==
    IF i > Len(StatusQueries) THEN Return(o, None)
    ELSE HSC103_check_status_from(
             self, HSC103_query(self, o, StatusQueries[i], lines[i]), i + 1, lines)

HSC103_check_status(self, o, lines) == HSC103_check_status_from(self, o, 1, lines)

\* list(map(int, msg.split(','))): [ok |-> FALSE] stands for ValueError
IntList(text) ==
    LET fields == Split(text)
    IN  IF \A i \in 1..Len(fields) : PyInt(fields[i]).ok
        THEN [ok |-> TRUE, val |-> [i \in 1..Len(fields) |-> PyInt(fields[i]).val]]
        ELSE [ok |-> FALSE]

\* is_busy (src/HSC103Controller only)
HSC103_is_busy(self, o, line) ==
    LET o1 == HSC103_query(self, o, "Q:", line)
        p == IntList(LastReply(o1))
    IN  Return(o1, List(IF p.ok THEN p.val ELSE <<-1, -1, -1>>))

\* get_position: src/hsc103controller sends the query and returns
HSC103_get_position(self, o, line) ==
    IF self.variant = "hsc103" THEN Return(HSC103_send(self, o, "Q:"), None)
    ELSE LET o1 == HSC103_query(self, o, "Q:", line)
             p == IntList(LastReply(o1))
         IN  Return(o1, List(IF p.ok THEN p.val ELSE <<0, 0, 0>>))

\* int(val * self.um_per_pulse) in src/HSC103Controller,
\* int(val / self.um_per_pulse) in src/hsc103controller; with um_per_pulse =
\* 0.01 the doubles give the exact quotient truncated, and the exact product
ToPulses(self, val) ==
    IF self.variant = "hsc103" THEN val * PulsesPerUm
    ELSE TruncDiv(val, PulsesPerUm)

PulseTexts(self, values) == [i \in 1..Len(values) |-> ToString(ToPulses(self, values[i]))]

HSC103_move_abs(self, o, values) ==
    IF Len(values) # 3 THEN Return(o, Bool(FALSE))
    ELSE Return(HSC103_send(self, o, "A:" \o Join(PulseTexts(self, values), ",")), None)

\* src/HSC103Controller converts the list [1, 2, 3] + coord, src/hsc103controller
\* writes 'K:1,2,3,' and converts coord
HSC103_move_linear(self, o, coord) ==
    IF Len(coord) # 3 THEN Return(o, Bool(FALSE))
    ELSE IF self.variant = "hsc103"
    THEN Return(HSC103_send(self, o, "K:1,2,3," \o Join(PulseTexts(self, coord), ",")), None)
    ELSE Return(HSC103_send(self, o, "K:" \o Join(PulseTexts(self, <<1, 2, 3>> \o coord), ",")),
                None)

JogToken(s) == CASE s = -1 -> "-" [] s = 0 -> "" [] s = 1 -> "+"

HSC103_jog(self, o, args) ==
    IF Len(args) # 3 THEN Return(o, Bool(FALSE))
    ELSE IF \E i \in 1..3 : args[i] \notin {-1, 0, 1} THEN Return(o, Bool(FALSE))
    ELSE Return(HSC103_send(self, o, "J:" \o Join([i \in 1..3 |-> JogToken(args[i])], ",")),
                None)

HSC103_stop_emergency(self, o) == Return(HSC103_send(self, o, "L:E"), None)

\* a range test that forgets final < start
SpeedNoOrderCheck(start, final, rate) ==
    /\ ~(start < 1 \/ MaxPulseSpeed < start)
    /\ ~(final < 1 \/ MaxPulseSpeed < final)
    /\ ~(rate < 1 \/ RateMax < rate)

\* the range test of set_speed on start, final and rate
SpeedInRange(start, final, rate) ==
    ~(\/ start < 1 \/ MaxPulseSpeed < start
      \/ final < 1 \/ MaxPulseSpeed < final \/ final < start
      \/ rate < 1 \/ RateMax < rate)

HSC103_set_speed(self, o, args) ==
    IF Len(args) # 4 THEN Return(o, Bool(FALSE))
    ELSE IF args[1] \notin {1, 2, 3} THEN Return(o, Bool(FALSE))
    ELSE IF ~SpeedInRange(args[2], args[3], args[4]) THEN Return(o, Bool(FALSE))
    ELSE Return(HSC103_send(self, o,
                    "D:" \o Join([i \in 1..4 |-> ToString(args[i])], ",")),
                None)

\* for i in range(1, 4)
SpeedAxes == <<1, 2, 3>>

RECURSIVE HSC103_set_speed_from(_, _, _, _)
HSC103_set_speed_from(self, o, k, args) ==
    IF k > Len(SpeedAxes) THEN Return(o, None)
    ELSE HSC103_set_speed_from(
             self, HSC103_set_speed(self, o, <<SpeedAxes[k]>> \o args), k + 1, args)

HSC103_set_speed_all(self, o, args) == HSC103_set_speed_from(self, o, 1, args)

\* max_speed / um_per_pulse / 10, max_speed / um_per_pulse, 1
HSC103_set_speed_max(self, o) ==
    HSC103_set_speed_all(self, o, <<MaxPulseSpeed \div 10, MaxPulseSpeed, 1>>)

(***************************************************************************)
(* The inputs of the model: the caller's arguments and the device's lines. *)
(***************************************************************************)
Alphabet == {"0", "1", "-", ".", ",", " ", "b"}

\* every text over Alphabet of at most MaxReplyLen characters: a line cut
\* short by a read that timed out
ShortTexts == UNION {[1..k -> Alphabet] : k \in 0..MaxReplyLen}

\* lines of the DS102, ended by "\r"
DS102Lines ==
    ShortTexts \cup
    {<<"1", "2", ".", "3", "4", "5", "\r">>, <<"-", "1", "2", ".", "3", "4", "5", "\r">>,
     <<"1", ".", "0", "0", "1", "\r">>, <<"0", ".", "5", "\r">>,
     <<"i", "n", "f", "\r">>, <<"n", "a", "n", "\r">>, <<"b", "a", "d", "\r">>,
     <<"0", "\r">>, <<"1", "\r">>, <<"3", "\r">>}

\* lines answering READY? and SELectSPeed?
DS102StatusLines ==
    {<<"0", "\r">>, <<"1", "\r">>, <<"2", "\r">>, <<"0">>, <<>>,
     <<"0", "0", "\r">>, <<" ", "0", "\r">>}

\* lines of the HSC-103, ended by "\r\n"
HSC103Lines ==
    ShortTexts \cup
    {<<"1", ",", "0", ",", "-", "1">>, <<"1", ",", "0", ",", "-", "1", "\r", "\n">>,
     <<"0", ",", "0", ",", "0", "\r", "\n">>, <<"1", "0", "0", ",", "-", "2", "5", "\r", "\n">>,
     <<"1", ",", "0", ",", "x", "\r", "\n">>, <<"b", "a", "d">>, <<"b", "a", "d", "\r", "\n">>,
     Placeholder}

\* lines answering the status queries; check_status only prints them
HSC103StatusLines == {<<"O", "K", "\r", "\n">>, <<>>}

\* 'x' and 'y' are the axes of the DS102; 'z' is not one
AxisArgs == {"x", "y", "z"}

VelArgs ==
    (-VelSpan..VelSpan) \cup {VelMax - 1, VelMax, VelMax + 1}
                        \cup {-(VelMax - 1), -VelMax, -(VelMax + 1)}

PosArgs == -PosSpan..PosSpan

\* micrometre lists for move_abs and move_linear: three values, and lists of
\* the wrong length
UmArgs == {-250, -100, -1, 0, 1, 99, 100, 250}

UmLists == [1..3 -> UmArgs] \cup [1..2 -> {0, 100}] \cup [1..4 -> {0, 100}]

JogLists == [1..3 -> {-2, -1, 0, 1, 2}] \cup [1..2 -> {0, 1}]

SpeedArgs == {0, 1, 2, MaxPulseSpeed \div 10, MaxPulseSpeed - 1, MaxPulseSpeed,
              MaxPulseSpeed + 1}

RateArgs == {0, 1, 2, RateMax, RateMax + 1}

SpeedTriples == {<<st, fi, ra>> : st \in SpeedArgs, fi \in SpeedArgs, ra \in RateArgs}

SpeedLists ==
    {<<ax>> \o t : ax \in 0..4, t \in SpeedTriples} \cup [1..3 -> {1}] \cup [1..5 -> {1}]

SpeedAllLists == SpeedTriples \cup [1..2 -> {1}]

(***************************************************************************)
(* The state machine.                                                      *)
(*   ctl     the controller that exists: "none", "DS102", "HSC103" or      *)
(*           "hsc103"                                                      *)
(*   online  whether its ser is a port                                     *)
(*   nInit   how many times the DS102 start-up sequence has run            *)
(*   pc      the caller: "idle" between calls, "returned" when a call has  *)
(*           handed back and its log, wire and ret are there to read       *)
(*   call    the call that returned, with its arguments                    *)
(***************************************************************************)
Init ==
    /\ ctl = "none"
    /\ online = FALSE
    /\ nInit = 0
    /\ pc = "idle"
    /\ call = [name |-> "none"]
    /\ log = <<>>
    /\ wire = <<>>
    /\ ret = None

Self == [variant |-> ctl, online |-> online]

\* a method call on the controller that exists
Do(c, o) ==
    /\ pc' = "returned"
    /\ call' = c
    /\ log' = o.log
    /\ wire' = o.wire
    /\ ret' = o.ret
    /\ UNCHANGED <<ctl, online, nInit>>

\* DS102Controller(ser)
DS102_Construct ==
    /\ pc = "idle"
    /\ ctl = "none"
    /\ \E lines \in [1..4 -> DS102StatusLines] :
         LET o == DS102_init(lines)
         IN  /\ ctl' = "DS102"
             /\ online' = TRUE
             /\ nInit' = nInit + 1
             /\ pc' = "returned"
             /\ call' = [name |-> "__init__"]
             /\ log' = o.log
             /\ wire' = o.wire
             /\ ret' = o.ret

DS102_SetVelocity ==
    /\ pc = "idle"
    /\ ctl = "DS102"
    /\ \E axis \in AxisArgs, vel \in VelArgs :
         Do([name |-> "set_velocity", axis |-> axis, vel |-> vel],
            DS102_set_velocity(Begin, axis, vel))

DS102_SetVelocityAll ==
    /\ pc = "idle"
    /\ ctl = "DS102"
    /\ \E vel \in VelArgs :
         Do([name |-> "set_velocity_all", vel |-> vel], DS102_set_velocity_all(Begin, vel))

DS102_SetVelocityMaxAll ==
    /\ pc = "idle"
    /\ ctl = "DS102"
    /\ Do([name |-> "set_velocity_max_all"], DS102_set_velocity_max_all(Begin))

DS102_SelectSpeedTable ==
    /\ pc = "idle"
    /\ ctl = "DS102"
    /\ \E axis \in AxisArgs, speed \in 0..9 :
         Do([name |-> "select_speed_table", axis |-> axis, speed |-> speed],
            DS102_select_speed_table(Begin, axis, speed))

DS102_SpeedTableIs ==
    /\ pc = "idle"
    /\ ctl = "DS102"
    /\ \E axis \in AxisArgs, speed \in 0..9, line \in DS102StatusLines :
         Do([name |-> "speed_table_is", axis |-> axis, speed |-> speed],
            DS102_speed_table_is(Begin, axis, speed, line))

DS102_MoveVelocity ==
    /\ pc = "idle"
    /\ ctl = "DS102"
    /\ \E axis \in AxisArgs, vel \in VelArgs :
         Do([name |-> "move_velocity", axis |-> axis, vel |-> vel],
            DS102_move_velocity(Begin, axis, vel))

DS102_MoveAbs ==
    /\ pc = "idle"
    /\ ctl = "DS102"
    /\ \E axis \in AxisArgs, pos \in PosArgs :
         Do([name |-> "move_abs", axis |-> axis, pos |-> pos],
            DS102_move_abs(Begin, axis, pos))

DS102_MoveLine ==
    /\ pc = "idle"
    /\ ctl = "DS102"
    /\ \E x \in PosArgs, y \in PosArgs :
         Do([name |-> "move_line", x |-> x, y |-> y], DS102_move_line(Begin, x, y))

DS102_StopAxis ==
    /\ pc = "idle"
    /\ ctl = "DS102"
    /\ \E axis \in AxisArgs :
         Do([name |-> "stop_axis", axis |-> axis], DS102_stop_axis(Begin, axis))

DS102_Stop ==
    /\ pc = "idle"
    /\ ctl = "DS102"
    /\ Do([name |-> "stop"], DS102_stop(Begin))

DS102_GetPosition ==
    /\ pc = "idle"
    /\ ctl = "DS102"
    /\ \E lineX \in DS102Lines, lineY \in DS102Lines :
         Do([name |-> "get_position"], DS102_get_position(Begin, lineX, lineY))

DS102_SetPosition ==
    /\ pc = "idle"
    /\ ctl = "DS102"
    /\ \E axis \in AxisArgs, pos \in PosArgs :
         Do([name |-> "set_position", axis |-> axis, pos |-> pos],
            DS102_set_position(Begin, axis, pos))

DS102_CheckLimit ==
    /\ pc = "idle"
    /\ ctl = "DS102"
    /\ \E axis \in AxisArgs, line \in DS102Lines :
         Do([name |-> "check_limit", axis |-> axis], DS102_check_limit(Begin, axis, line))

DS102_CheckLimitAll ==
    /\ pc = "idle"
    /\ ctl = "DS102"
    /\ \E lineX \in DS102Lines, lineY \in DS102Lines :
         Do([name |-> "check_limit_all"], DS102_check_limit_all(Begin, lineX, lineY))

\* HSC103Controller(ser) of either variant, with a port or with None
HSC103_Construct ==
    /\ pc = "idle"
    /\ ctl = "none"
    /\ \E variant \in {"HSC103", "hsc103"}, port \in BOOLEAN,
          lines \in [1..10 -> HSC103StatusLines] :
         LET o == HSC103_check_status([variant |-> variant, online |-> port], Begin, lines)
         IN  /\ ctl' = variant
             /\ online' = port
             /\ pc' = "returned"
             /\ call' = [name |-> "__init__"]
             /\ log' = o.log
             /\ wire' = o.wire
             /\ ret' = o.ret
             /\ UNCHANGED nInit

IsHSC == ctl \in {"HSC103", "hsc103"}

HSC103_CheckStatus ==
    /\ pc = "idle"
    /\ IsHSC
    /\ \E lines \in [1..10 -> HSC103StatusLines] :
         Do([name |-> "check_status"], HSC103_check_status(Self, Begin, lines))

HSC103_IsBusy ==
    /\ pc = "idle"
    /\ ctl = "HSC103"
    /\ \E line \in HSC103Lines :
         Do([name |-> "is_busy"], HSC103_is_busy(Self, Begin, line))

HSC103_GetPosition ==
    /\ pc = "idle"
    /\ IsHSC
    /\ \E line \in HSC103Lines :
         Do([name |-> "get_position"], HSC103_get_position(Self, Begin, line))

HSC103_MoveAbs ==
    /\ pc = "idle"
    /\ IsHSC
    /\ \E values \in UmLists :
         Do([name |-> "move_abs", values |-> values], HSC103_move_abs(Self, Begin, values))

HSC103_MoveLinear ==
    /\ pc = "idle"
    /\ IsHSC
    /\ \E coord \in UmLists :
         Do([name |-> "move_linear", values |-> coord], HSC103_move_linear(Self, Begin, coord))

HSC103_Jog ==
    /\ pc = "idle"
    /\ IsHSC
    /\ \E args \in JogLists :
         Do([name |-> "jog", args |-> args], HSC103_jog(Self, Begin, args))

HSC103_StopEmergency ==
    /\ pc = "idle"
    /\ IsHSC
    /\ Do([name |-> "stop_emergency"], HSC103_stop_emergency(Self, Begin))

HSC103_SetSpeed ==
    /\ pc = "idle"
    /\ IsHSC
    /\ \E args \in SpeedLists :
         Do([name |-> "set_speed", args |-> args], HSC103_set_speed(Self, Begin, args))

HSC103_SetSpeedAll ==
    /\ pc = "idle"
    /\ IsHSC
    /\ \E args \in SpeedAllLists :
         Do([name |-> "set_speed_all", args |-> args], HSC103_set_speed_all(Self, Begin, args))

HSC103_SetSpeedMax ==
    /\ pc = "idle"
    /\ IsHSC
    /\ Do([name |-> "set_speed_max"], HSC103_set_speed_max(Self, Begin))

\* the caller has read the result and is ready for its next call
Resume ==
    /\ pc = "returned"
    /\ pc' = "idle"
    /\ call' = [name |-> "none"]
    /\ log' = <<>>
    /\ wire' = <<>>
    /\ ret' = None
    /\ UNCHANGED <<ctl, online, nInit>>

Next ==
    \/ DS102_Construct
    \/ DS102_SetVelocity
    \/ DS102_SetVelocityAll
    \/ DS102_SetVelocityMaxAll
    \/ DS102_SelectSpeedTable
    \/ DS102_SpeedTableIs
    \/ DS102_MoveVelocity
    \/ DS102_MoveAbs
    \/ DS102_MoveLine
    \/ DS102_StopAxis
    \/ DS102_Stop
    \/ DS102_GetPosition
    \/ DS102_SetPosition
    \/ DS102_CheckLimit
    \/ DS102_CheckLimitAll
    \/ HSC103_Construct
    \/ HSC103_CheckStatus
    \/ HSC103_IsBusy
    \/ HSC103_GetPosition
    \/ HSC103_MoveAbs
    \/ HSC103_MoveLinear
    \/ HSC103_Jog
    \/ HSC103_StopEmergency
    \/ HSC103_SetSpeed
    \/ HSC103_SetSpeedAll
    \/ HSC103_SetSpeedMax
    \/ Resume

Spec == Init /\ [][Next]_vars

(***************************************************************************)
(* The claims.  Each is read off the state a call leaves behind            *)
(* (pc = "returned").                                                      *)
(***************************************************************************)
Returned(name) == pc = "returned" /\ call.name = name

IsSend(e, msg) == e.ev = "send" /\ e.msg = msg

NumSends == Cardinality({i \in 1..Len(log) : log[i].ev = "send"})

NumRecvs == Cardinality({i \in 1..Len(log) : log[i].ev = "recv"})

AxisDigit(axis) == IF axis = "x" THEN "1" ELSE "2"

\* C1: DS102Controller.set_velocity(axis, vel) with a valid axis returns
\* normally and never receives; it sends nothing for vel <= 0 and for
\* vel > 25000, and for vel in 1..25000 it sends exactly the one command
\* 'AXIs{1|2}:Fspeed0 {vel}'.
C1_SetVelocity ==
    (Returned("set_velocity") /\ ctl = "DS102" /\ call.axis \in {"x", "y"}) =>
        /\ ret.kind = "None"
        /\ NumRecvs = 0
        /\ IF 1 <= call.vel /\ call.vel <= 25000
           THEN /\ Len(log) = 1
                /\ IsSend(log[1], "AXIs" \o AxisDigit(call.axis) \o ":Fspeed0 "
                                         \o ToString(call.vel))
                /\ wire = <<log[1].msg \o "\r">>
           ELSE log = <<>> /\ wire = <<>>

\* set_velocity has sent the largest velocity it accepts
C1_Witness ==
    /\ Returned("set_velocity") /\ ctl = "DS102" /\ call.axis = "y"
    /\ call.vel = 25000 /\ Len(log) = 1

SpeedCommand(a) ==
    "D:" \o ToString(a[1]) \o "," \o ToString(a[2]) \o "," \o ToString(a[3])
         \o "," \o ToString(a[4])

\* C2: in both HSC103Controller variants set_speed([axis, start, final, rate])
\* sends exactly one 'D:{axis},{start},{final},{rate}' when axis is in
\* {1,2,3}, 1 <= start <= final <= 4000000 and 1 <= rate <= 1000, and sends
\* nothing and returns False when any of these conditions is violated.
C2_SetSpeed ==
    (Returned("set_speed") /\ IsHSC /\ Len(call.args) = 4) =>
        LET a == call.args
            valid == /\ a[1] \in {1, 2, 3}
                     /\ 1 <= a[2] /\ a[2] <= a[3] /\ a[3] <= 4000000
                     /\ 1 <= a[4] /\ a[4] <= 1000
        IN  IF valid
            THEN /\ Len(log) = 1
                 /\ IsSend(log[1], SpeedCommand(a))
                 /\ wire = IF online THEN <<SpeedCommand(a) \o "\r\n">> ELSE <<>>
            ELSE log = <<>> /\ wire = <<>> /\ ret.kind = "bool" /\ ret.val = FALSE

\* set_speed of the second variant has sent start = final = 4000000, rate 1000
C2_Witness ==
    /\ Returned("set_speed") /\ ctl = "hsc103" /\ online
    /\ call.args = <<3, 4000000, 4000000, 1000>>
    /\ Len(wire) = 1

\* C3 as stated: every public operation (every method; construction is left
\* aside) performs at most one send, followed by at most one receive, per call.
C3_AtMostOneExchange ==
    (pc = "returned" /\ call.name # "__init__") =>
        /\ NumSends <= 1
        /\ NumRecvs <= 1
        /\ \A i \in 1..Len(log) : log[i].ev = "recv" => i = 2

\* the sends and the receives a call of each operation may perform
ExchangeLimit ==
    CASE call.name = "__init__" /\ ctl = "DS102" -> <<6, 4>>
      [] call.name = "__init__" /\ ctl # "DS102" -> <<10, 10>>
      [] call.name = "check_status" -> <<10, 10>>
      [] call.name \in {"set_speed_all", "set_speed_max"} -> <<3, 0>>
      [] call.name \in {"set_velocity_all", "set_velocity_max_all", "move_velocity"} -> <<2, 0>>
      [] call.name \in {"check_limit_all"} -> <<2, 2>>
      [] call.name = "get_position" /\ ctl = "DS102" -> <<2, 2>>
      [] call.name = "get_position" /\ ctl # "DS102" -> <<1, 1>>
      [] call.name \in {"speed_table_is", "check_limit", "is_busy"} -> <<1, 1>>
      [] OTHER -> <<1, 0>>

\* C3, amended: every receive of a call comes directly after a send of the
\* same call, so a call is a sequence of exchanges; the single-command
\* operations perform at most one send and at most one receive, the
\* operations that loop over axes or steps perform at most 2 sends (DS102
\* move_velocity, set_velocity_all, set_velocity_max_all; get_position and
\* check_limit_all with 2 receives), 3 sends (set_speed_all, set_speed_max),
\* 6 sends and 4 receives (DS102 construction) or 10 sends and 10 receives
\* (check_status and HSC103 construction).
C3_Exchanges ==
    pc = "returned" =>
        /\ \A i \in 1..Len(log) :
             log[i].ev = "recv" => (i > 1 /\ log[i - 1].ev = "send")
        /\ NumSends <= ExchangeLimit[1]
        /\ NumRecvs <= ExchangeLimit[2]

\* the older get_position has performed two exchanges in one call
C3_Witness ==
    /\ Returned("get_position") /\ ctl = "DS102"
    /\ NumSends = 2 /\ NumRecvs = 2 /\ ret.kind = "list"

Fields(text) == Split(text)

ParsesAsIntegers(text) == \A i \in 1..Len(Fields(text)) : PyInt(Fields(text)[i]).ok

\* C4: in every HSC103Controller variant the busy query and the position
\* query each send 'Q:', read one reply and return a list of integers: the
\* integers of a comma-separated reply, and [-1,-1,-1] (is_busy) or [0,0,0]
\* (get_position) for a reply with a field that is no integer; no error is
\* raised.
C4_QueryParses ==
    (pc = "returned" /\ IsHSC /\ call.name \in {"is_busy", "get_position"}) =>
        /\ Len(log) = 2
        /\ IsSend(log[1], "Q:")
        /\ log[2].ev = "recv"
        /\ ret.kind = "list"
        /\ IF ParsesAsIntegers(log[2].reply)
           THEN ret.val = [i \in 1..Len(Fields(log[2].reply)) |->
                              PyInt(Fields(log[2].reply)[i]).val]
           ELSE ret.val = IF call.name = "is_busy" THEN <<-1, -1, -1>> ELSE <<0, 0, 0>>

IsNumber(text) == PyFloat(text).kind = "num"

Micrometres(text) == IF IsNumber(text) THEN ExactMilli(PyFloat(text)) ELSE 0

\* C5: DS102Controller.get_position always queries x then y (send
\* 'AXIs1:POSition?', receive, send 'AXIs2:POSition?', receive) and returns a
\* two-element list whose element for each axis is the reply in millimetres
\* times 1000, as an integer, when the reply is a number and 0 when it is
\* not; a reply that is no number on one axis never keeps the other axis from
\* being queried and reported.
C5_GetPosition ==
    (Returned("get_position") /\ ctl = "DS102") =>
        /\ Len(log) = 4
        /\ IsSend(log[1], "AXIs1:POSition?") /\ log[2].ev = "recv"
        /\ IsSend(log[3], "AXIs2:POSition?") /\ log[4].ev = "recv"
        /\ ret.kind = "list"
        /\ ret.val = <<Micrometres(log[2].reply), Micrometres(log[4].reply)>>

\* C6 as stated, for the velocities within the ceiling of the device:
\* DS102Controller.move_velocity(axis, vel) first sends
\* 'AXIs{n}:Fspeed0 {abs(vel)}' and only afterwards 'AXIs{n}:GO {code}', code
\* 5 when vel > 0 and 6 otherwise (vel = 0 included).
C6_SpeedThenDirection ==
    (Returned("move_velocity") /\ ctl = "DS102" /\ call.axis \in {"x", "y"}
       /\ Abs(call.vel) <= 25000) =>
        /\ Len(log) = 2
        /\ IsSend(log[1], "AXIs" \o AxisDigit(call.axis) \o ":Fspeed0 "
                                 \o ToString(Abs(call.vel)))
        /\ IsSend(log[2], "AXIs" \o AxisDigit(call.axis) \o ":GO "
                                 \o (IF call.vel > 0 THEN "5" ELSE "6"))

\* C6, amended: move_velocity(axis, vel) always sends the direction command
\* 'AXIs{n}:GO {code}' last, code 5 when vel > 0 and 6 otherwise; the speed
\* command 'AXIs{n}:Fspeed0 {abs(vel)}' is sent before it exactly when
\* 1 <= abs(vel) <= 25000, and nothing is sent before it otherwise (vel = 0,
\* abs(vel) > 25000).  Hence move_velocity(axis, 5) and move_velocity(axis, -5)
\* send the same speed command and differ in the direction code only.
C6_DirectionLast ==
    (Returned("move_velocity") /\ ctl = "DS102" /\ call.axis \in {"x", "y"}) =>
        LET go == "AXIs" \o AxisDigit(call.axis) \o ":GO "
                         \o (IF call.vel > 0 THEN "5" ELSE "6")
            speed == "AXIs" \o AxisDigit(call.axis) \o ":Fspeed0 "
                            \o ToString(Abs(call.vel))
        IN  /\ ret.kind = "None"
            /\ IF 1 <= Abs(call.vel) /\ Abs(call.vel) <= 25000
               THEN Len(log) = 2 /\ IsSend(log[1], speed) /\ IsSend(log[2], go)
               ELSE Len(log) = 1 /\ IsSend(log[1], go)

\* move_velocity(x, -5) has sent the speed 5 and then the direction 6
C6_Witness ==
    /\ Returned("move_velocity") /\ ctl = "DS102" /\ call.axis = "x" /\ call.vel = -5
    /\ Len(log) = 2 /\ IsSend(log[1], "AXIs1:Fspeed0 5") /\ IsSend(log[2], "AXIs1:GO 6")

PulseList(values) ==
    ToString(values[1] * 100) \o "," \o ToString(values[2] * 100) \o ","
        \o ToString(values[3] * 100)

\* C7: in every HSC103Controller variant, for every list of three integer
\* micrometre values, move_abs sends 'A:{p1},{p2},{p3}' and move_linear sends
\* 'K:1,2,3,{d1},{d2},{d3}', each p and d being the input divided by 0.01
\* (times 100), truncated to an integer.
C7_PulseCommands ==
    (pc = "returned" /\ IsHSC /\ call.name \in {"move_abs", "move_linear"}
       /\ Len(call.values) = 3) =>
        /\ Len(log) = 1
        /\ IsSend(log[1], IF call.name = "move_abs"
                          THEN "A:" \o PulseList(call.values)
                          ELSE "K:1,2,3," \o PulseList(call.values))

\* C8: for every vel with abs(vel) > 25000, set_velocity, set_velocity_all
\* and move_velocity of the DS102Controller each return with nothing sent.
C8_NoSendOutOfRange ==
    (pc = "returned" /\ ctl = "DS102"
       /\ call.name \in {"set_velocity", "set_velocity_all", "move_velocity"}
       /\ Abs(call.vel) > 25000) =>
        log = <<>> /\ wire = <<>>

OnLimit(text) == PyInt(text).ok /\ PyInt(text).val > 0

\* C9: DS102Controller.check_limit_all always sends both 'LIMIT?' queries, x
\* then y, and for every pair of replies it completes without raising and
\* returns two booleans, each true exactly when that axis's reply is an
\* integer greater than zero.
C9_CheckLimitAll ==
    (Returned("check_limit_all") /\ ctl = "DS102") =>
        /\ Len(log) = 4
        /\ IsSend(log[1], "AXIs1:LIMIT?") /\ log[2].ev = "recv"
        /\ IsSend(log[3], "AXIs2:LIMIT?") /\ log[4].ev = "recv"
        /\ ret.kind = "list"
        /\ ret.val = <<OnLimit(log[2].reply), OnLimit(log[4].reply)>>

\* the start-up exchange of one axis: READY? and its reply, SELectSPeed? and
\* its reply, and 'SELectSPeed 0' if and only if that reply is not '0'
StartupOfAxis(l, n) ==
    /\ Len(l) \in {4, 5}
    /\ IsSend(l[1], "AXIs" \o n \o ":READY?") /\ l[2].ev = "recv"
    /\ IsSend(l[3], "AXIs" \o n \o ":SELectSPeed?") /\ l[4].ev = "recv"
    /\ (Len(l) = 5) <=> (l[4].reply # <<"0">>)
    /\ Len(l) = 5 => IsSend(l[5], "AXIs" \o n \o ":SELectSPeed 0")

\* C10: constructing a DS102Controller runs the start-up sequence exactly
\* once, before any other method is called: for axis x and then axis y it
\* sends 'READY?' and reads a reply, sends 'SELectSPeed?' and reads a reply,
\* and sends 'SELectSPeed 0' for that axis if and only if the speed-table
\* reply is not the text '0'; nothing else is sent and every receive follows
\* its own query.
C10_Startup ==
    /\ (ctl = "DS102") <=> (nInit = 1)
    /\ nInit <= 1
    /\ (pc = "returned" /\ ctl = "DS102" /\ call.name # "__init__") => nInit = 1
    /\ (Returned("__init__") /\ ctl = "DS102") =>
        /\ Len(log) >= 8
        /\ LET k == IF log[4].ev = "recv" /\ log[4].reply = <<"0">> THEN 4 ELSE 5
           IN  /\ StartupOfAxis(SubSeq(log, 1, k), "1")
               /\ StartupOfAxis(SubSeq(log, k + 1, Len(log)), "2")
        /\ ret.kind = "None"

\* the speed table of x was reset ('00' is not the text '0') and that of y
\* was left alone
C10_Witness ==
    /\ Returned("__init__") /\ ctl = "DS102"
    /\ Len(log) = 9
    /\ log[4].ev = "recv" /\ log[4].reply = <<"0", "0">>
    /\ IsSend(log[5], "AXIs1:SELectSPeed 0")
    /\ log[9].ev = "recv" /\ log[9].reply = <<"0">>

====
